---------------------------- MODULE Spec2Model ----------------------------
(***************************************************************************)
(* FetchingService: the outbound request layer.  fetch() wires a          *)
(* cancellation token and a timeout timer to one AbortController, awaits  *)
(* the transport, resets the provider's exception count on success and    *)
(* routes a failure through handleRequestError, which classifies it into  *)
(* the error taxonomy or performs health-sink effects and returns.        *)
(*                                                                         *)
(* JavaScript values: `undefined`/`null` is the empty tuple <<>> and a    *)
(* present value v is <<v>>.  Strings that the code searches or parses    *)
(* are tuples of one-character strings.                                   *)
(***************************************************************************)
EXTENDS Integers, Sequences, FiniteSets, TLC

\* ------------------------------------------------------------------ bounds

\* The largest exception count a sink may already track when the first call is
\* made (the counts belong to the callers and are unbounded in the program).
MaxCount == 1

\* The concurrent fetch invocations the model follows.
Calls == {"c1", "c2"}

\* ------------------------------------------------------------- JS values

Undefined == <<>>

Some(v) == <<v>>

IsNullish(x) == x = <<>>

\* a ?? b
Coalesce(a, b) == IF IsNullish(a) THEN b ELSE a

\* String.prototype.includes: needle occurs as a contiguous, case-sensitive run.
Includes(hay, needle) ==
    \E i \in 0..(Len(hay) - Len(needle)) :
        SubSeq(hay, i + 1, i + Len(needle)) = needle

Digits == <<"0", "1", "2", "3", "4", "5", "6", "7", "8", "9">>

IsDigit(ch) == \E d \in 1..10 : Digits[d] = ch

DigitValue(ch) == (CHOOSE d \in 1..10 : Digits[d] = ch) - 1

IsWhiteSpace(ch) == ch \in {" ", "\t", "\n"}

RECURSIVE SkipWhiteSpace(_)
SkipWhiteSpace(s) ==
    IF s # <<>> /\ IsWhiteSpace(Head(s)) THEN SkipWhiteSpace(Tail(s)) ELSE s

RECURSIVE DigitPrefix(_)
DigitPrefix(s) ==
    IF s # <<>> /\ IsDigit(Head(s)) THEN <<Head(s)>> \o DigitPrefix(Tail(s)) ELSE <<>>

RECURSIVE DecimalValue(_)
DecimalValue(ds) ==
    IF ds = <<>> THEN 0
    ELSE 10 * DecimalValue(SubSeq(ds, 1, Len(ds) - 1)) + DigitValue(ds[Len(ds)])

\* The number NaN: a value that is neither Undefined nor any Some(n).
NaN == <<"N", "a", "N">>

NumberIsNaN(x) == x = NaN

\* parseInt(s, 10): leading white space is skipped, one sign is accepted, the
\* longest run of decimal digits is read and what follows is ignored; no digit
\* there gives NaN.  A number n is Some(n).
ParseInt10(s) ==
    LET t    == SkipWhiteSpace(s)
        neg  == t # <<>> /\ Head(t) = "-"
        body == IF t # <<>> /\ Head(t) \in {"-", "+"} THEN Tail(t) ELSE t
        ds   == DigitPrefix(body)
    IN  IF ds = <<>> THEN NaN
        ELSE Some(IF neg THEN 0 - DecimalValue(ds) ELSE DecimalValue(ds))


\* ------------------------------------------------------- Retriever values

\* Two providers: one with a status page and a token, one with neither.
GitHub ==
    [id |-> "github", name |-> "GitHub",
     statusPageUrl |-> Some("https://www.githubstatus.com"), token |-> Some("tokA")]

GitLab ==
    [id |-> "gitlab", name |-> "GitLab", statusPageUrl |-> Undefined, token |-> Undefined]

Retrievers == {GitHub, GitLab}

\* this.container.subscription: the aggregator's own exception tracker.
Subscription == "subscription"

\* Everything that owns a tracked exception count.
Sinks == {r.id : r \in Retrievers} \cup {Subscription}

\* ----------------------------------------------- transport values (inputs)

\* What the transport can resolve with; fetch never looks inside a Response.
Responses == {[ok |-> TRUE, status |-> 200], [ok |-> FALSE, status |-> 404]}

\* The one used where two calls run concurrently.
RaceResponses == {[ok |-> TRUE, status |-> 200]}

MsgGatewayTimeout == <<"g", "w", " ", "t", "i", "m", "e", "o", "u", "t">>

MsgTimeoutCapital == <<"T", "i", "m", "e", "o", "u", "t">>

MsgRateLimit == <<"A", "P", "I", " ", "r", "a", "t", "e", " ", "l", "i", "m", "i", "t">>

MsgPlain == <<"b", "o", "o", "m">>

Messages == {MsgGatewayTimeout, MsgTimeoutCapital, MsgRateLimit, MsgPlain}

HdrEpoch == <<"1", "7", "0", "0", "0", "0", "0", "0", "0", "0">>

HdrNotANumber == <<"n", "o", "t", "-", "a", "-", "n", "u", "m", "b", "e", "r">>

HdrDigitsThenText == <<" ", "4", "2", "s">>

HdrEmpty == <<>>

\* ex.response: its headers['x-ratelimit-reset'] and its errors[0].message.
Payload(reset, detail) == [headers |-> [xRatelimitReset |-> reset], errors |-> detail]

PlainPayload == Payload(Undefined, Undefined)

MsgDetail == <<"d", "e", "t", "a", "i", "l">>

Payloads ==
    {PlainPayload,
     Payload(Some(HdrEpoch), Some([message |-> MsgDetail])),
     Payload(Some(HdrNotANumber), Undefined),
     Payload(Some(HdrDigitsThenText), Undefined),
     Payload(Some(HdrEmpty), Undefined)}

\* The statuses a failure may carry (none, or a number around every boundary
\* the classifier tests).
Statuses ==
    {Undefined} \cup
    {Some(n) : n \in {399, 400, 401, 403, 404, 410, 422, 429, 499, 500, 501, 502, 503}}

\* A RequestError as the transport raises it.
RequestError(status, message, response) ==
    [kind |-> "RequestError", name |-> "HttpError", status |-> status,
     message |-> message, response |-> response]

\* The error the transport raises when its signal is aborted.
AbortError ==
    [kind |-> "Error", name |-> "AbortError", status |-> Undefined,
     message |-> <<"a", "b", "o", "r", "t">>, response |-> Undefined]

\* Failures the transport raises on its own.  Every status comes with every
\* message, with and without a response payload; the payload's header and
\* error detail vary where a status reads them; an AbortError-shaped error and
\* a ready-made CancellationError come with and without a status.
HttpFailures ==
    {RequestError(st, m, rp) :
        st \in Statuses, m \in Messages, rp \in {Undefined, Some(PlainPayload)}}

PayloadFailures ==
    {RequestError(st, m, Some(rp)) :
        st \in {Some(403), Some(500), Some(502), Some(501)},
        m \in {MsgRateLimit, MsgPlain}, rp \in Payloads}

AbortShapedFailures ==
    {[AbortError EXCEPT !.status = st] : st \in {Undefined, Some(404), Some(500)}}
    \cup {[kind |-> "CancellationError", name |-> "Canceled", status |-> st,
           message |-> MsgPlain, response |-> Undefined] :
            st \in {Undefined, Some(404), Some(500)}}

Exceptions == HttpFailures \cup PayloadFailures \cup AbortShapedFailures

\* The failures used where two calls run concurrently: one per way the
\* classifier can end.
RaceExceptions ==
    {RequestError(Some(500), MsgPlain, Some(PlainPayload)),
     RequestError(Some(502), MsgGatewayTimeout, Undefined),
     RequestError(Some(404), MsgPlain, Undefined)}

\* ----------------------------------------------------------- errors.ts

CancellationError(original) == [kind |-> "CancellationError", original |-> original]

AuthenticationError(id, reason, original) ==
    [kind |-> "AuthenticationError", id |-> id, reason |-> reason,
     original |-> Some(original)]

ProviderRequestNotFoundError(original) ==
    [kind |-> "ProviderRequestNotFoundError", original |-> Some(original)]

ProviderRequestClientError(original) ==
    [kind |-> "ProviderRequestClientError", original |-> Some(original)]

ProviderRequestRateLimitError(original, token, resetAt) ==
    [kind |-> "ProviderRequestRateLimitError", original |-> Some(original),
     token |-> token, resetAt |-> resetAt]

TaxonomyKinds ==
    {"CancellationError", "AuthenticationError", "ProviderRequestNotFoundError",
     "ProviderRequestClientError", "ProviderRequestRateLimitError"}


\* -------------------------------------------------- handleRequestError

\* What one run of handleRequestError does: the error it throws (Undefined when
\* it returns), its Logger.error calls, the sinks whose trackRequestException
\* it calls, the warnings it shows and the debug error messages it shows.
NoEffects ==
    [raised |-> Undefined, logged |-> 0, tracked |-> <<>>, warnings |-> <<>>,
     shown |-> <<>>]

Throw(error) == [NoEffects EXCEPT !.raised = Some(error)]

\* showIntegrationRequestFailed500WarningMessage(`${provider.name} failed ...`)
Failed500Warning(provider) ==
    [message |-> "RequestFailed500", name |-> provider.name,
     statusPage |-> provider.statusPageUrl]

\* showIntegrationRequestTimedOutWarningMessage(provider.name)
TimedOutWarning(provider) == [message |-> "RequestTimedOut", name |-> provider.name]

StatusIs(ex, codes) == \E n \in codes : ex.status = Some(n)

\* A mutation of AbortShaped: the error is not recognised and nothing is thrown.
AbortShapedUnrecognised(ex) == NoEffects

\* line 97
AbortShaped(ex) == Throw(CancellationError(Some(ex)))

\* A mutation of ResetAt: NaN is kept.
ResetAtKeepsNaN(reset) == IF IsNullish(reset) THEN Undefined ELSE ParseInt10(reset[1])

\* lines 109-117: resetAt from the header value.
ResetAt(reset) ==
    IF IsNullish(reset) THEN Undefined
    ELSE LET resetAt == ParseInt10(reset[1])
         IN  IF NumberIsNaN(resetAt) THEN Undefined ELSE resetAt

\* A mutation of Unauthorized: the aggregator's literal, as in the 403 case.
UnauthorizedAsAggregator(provider, ex) ==
    Throw(AuthenticationError("gitkraken", "Unauthorized", ex))

\* case 401
Unauthorized(provider, ex) ==
    Throw(AuthenticationError(provider.id, "Unauthorized", ex))

\* A mutation of Forbidden: the provider's id, as in the 401 case.
ForbiddenAsProvider(provider, ex) ==
    IF Includes(ex.message, <<"r", "a", "t", "e", " ", "l", "i", "m", "i", "t">>)
    THEN LET reset == IF IsNullish(ex.response) THEN Undefined
                      ELSE ex.response[1].headers.xRatelimitReset
         IN  Throw(ProviderRequestRateLimitError(ex, provider.token, ResetAt(reset)))
    ELSE Throw(AuthenticationError(provider.id, "Forbidden", ex))

\* case 403
Forbidden(provider, ex) ==
    IF Includes(ex.message, <<"r", "a", "t", "e", " ", "l", "i", "m", "i", "t">>)
    THEN LET reset == IF IsNullish(ex.response) THEN Undefined
                      ELSE ex.response[1].headers.xRatelimitReset
         IN  Throw(ProviderRequestRateLimitError(ex, provider.token, ResetAt(reset)))
    ELSE Throw(AuthenticationError("gitkraken", "Forbidden", ex))

\* A mutation of InternalServerError: the payload is not looked at.
InternalServerErrorAnyPayload(provider, ex) ==
    [NoEffects EXCEPT !.logged = 1, !.tracked = <<Subscription>>,
                      !.warnings = <<Failed500Warning(provider)>>]

\* case 500; it returns, so the code after the switch is not reached.
InternalServerError(provider, ex) ==
    IF ~IsNullish(ex.response)
    THEN [NoEffects EXCEPT !.logged = 1, !.tracked = <<Subscription>>,
                           !.warnings = <<Failed500Warning(provider)>>]
    ELSE [NoEffects EXCEPT !.logged = 1]

\* A mutation of BadGateway: it tracks on the aggregator, as 500 and 503 do.
BadGatewayOnAggregator(provider, ex) ==
    IF Includes(ex.message, <<"t", "i", "m", "e", "o", "u", "t">>)
    THEN [NoEffects EXCEPT !.logged = 1, !.tracked = <<Subscription>>,
                           !.warnings = <<TimedOutWarning(provider)>>]
    ELSE [NoEffects EXCEPT !.logged = 1]

\* case 502; it breaks out of the switch.
BadGateway(provider, ex) ==
    IF Includes(ex.message, <<"t", "i", "m", "e", "o", "u", "t">>)
    THEN [NoEffects EXCEPT !.logged = 1, !.tracked = <<provider.id>>,
                           !.warnings = <<TimedOutWarning(provider)>>]
    ELSE [NoEffects EXCEPT !.logged = 1]

\* A mutation of ServiceUnavailable: it tracks on the provider as well.
ServiceUnavailableTracksBoth(provider, ex) ==
    [NoEffects EXCEPT !.logged = 1, !.tracked = <<Subscription, provider.id>>,
                      !.warnings = <<Failed500Warning(provider)>>]

\* A mutation of ServiceUnavailable: it asks for a payload, as 500 does.
ServiceUnavailableIfPayload(provider, ex) ==
    IF ~IsNullish(ex.response)
    THEN [NoEffects EXCEPT !.logged = 1, !.tracked = <<Subscription>>,
                           !.warnings = <<Failed500Warning(provider)>>]
    ELSE [NoEffects EXCEPT !.logged = 1]

\* case 503; it returns.
ServiceUnavailable(provider, ex) ==
    [NoEffects EXCEPT !.logged = 1, !.tracked = <<Subscription>>,
                      !.warnings = <<Failed500Warning(provider)>>]

\* A mutation of AfterSwitch: the debug flag is not looked at.
AfterSwitchAlways(provider, ex, debugging, sofar) ==
    LET detail == IF IsNullish(ex.response) \/ IsNullish(ex.response[1].errors)
                  THEN Undefined
                  ELSE Some(ex.response[1].errors[1].message)
    IN  [sofar EXCEPT !.shown =
            <<[name |-> provider.name, text |-> Coalesce(detail, Some(ex.message))[1]]>>]

\* The code after the switch, reached by `break` only.
AfterSwitch(provider, ex, debugging, sofar) ==
    IF debugging
    THEN LET detail == IF IsNullish(ex.response) \/ IsNullish(ex.response[1].errors)
                       THEN Undefined
                       ELSE Some(ex.response[1].errors[1].message)
         IN  [sofar EXCEPT !.shown =
                 <<[name |-> provider.name, text |-> Coalesce(detail, Some(ex.message))[1]]>>]
    ELSE sofar

\* A mutation of IsClientStatus: the lower end is left out.
IsClientStatusAbove400(status) == ~IsNullish(status) /\ status[1] > 400 /\ status[1] < 500

\* line 154: ex.status >= 400 && ex.status < 500 (false for no status).
IsClientStatus(status) == ~IsNullish(status) /\ status[1] >= 400 /\ status[1] < 500

\* lines 99-162: the switch on ex.status and the code after it.
SwitchOnStatus(provider, ex, debugging) ==
    IF StatusIs(ex, {404, 410, 422}) THEN Throw(ProviderRequestNotFoundError(ex))
    ELSE IF StatusIs(ex, {401}) THEN Unauthorized(provider, ex)
    ELSE IF StatusIs(ex, {403}) THEN Forbidden(provider, ex)
    ELSE IF StatusIs(ex, {500}) THEN InternalServerError(provider, ex)
    ELSE IF StatusIs(ex, {502})
         THEN AfterSwitch(provider, ex, debugging, BadGateway(provider, ex))
    ELSE IF StatusIs(ex, {503}) THEN ServiceUnavailable(provider, ex)
    ELSE IF IsClientStatus(ex.status) THEN Throw(ProviderRequestClientError(ex))
    ELSE AfterSwitch(provider, ex, debugging, NoEffects)

\* A mutation of handleRequestError: an exception that carries a status is
\* classified by it before cancellation is looked for.
handleRequestErrorStatusFirst(provider, ex, debugging) ==
    IF ~IsNullish(ex.status) THEN SwitchOnStatus(provider, ex, debugging)
    ELSE IF ex.kind = "CancellationError" THEN Throw(ex)
    ELSE IF ex.name = "AbortError" THEN AbortShaped(ex)
    ELSE SwitchOnStatus(provider, ex, debugging)

handleRequestError(provider, ex, debugging) ==
    IF ex.kind = "CancellationError" THEN Throw(ex)
    ELSE IF ex.name = "AbortError" THEN AbortShaped(ex)
    ELSE SwitchOnStatus(provider, ex, debugging)


\* ------------------------------------------------------------------ state

VARIABLES
    call,                   \* per invocation of fetch: its locals and what it did
    microtasks,             \* the promise reactions queued and not yet run
    requestExceptionCount,  \* per sink: the exception count it tracks
    isDebugging             \* Logger.isDebugging

vars == <<call, microtasks, requestExceptionCount, isDebugging>>

\* options.timeout values a caller passes.
ExplicitTimeouts == {0, 10}

\* The one passed where two calls run concurrently.
RaceTimeouts == {10}

\* What a call has done so far, as its collaborators observe it.
NoCallEffects ==
    [transportCalls |-> 0, resets |-> <<>>, tracked |-> <<>>, warnings |-> <<>>,
     logged |-> 0, shown |-> <<>>,
     abortedInFlight |-> FALSE,  \* the signal was raised while the promise was pending
     lateData |-> FALSE,         \* network data arrived after the signal was raised
     lateTimer |-> FALSE]        \* the timer callback ran after the call settled

\* A slot whose fetch has not been invoked; its fields mean nothing yet.
IdleCall ==
    [pc |-> "idle", provider |-> GitHub,
     options |-> [cancellation |-> FALSE, isCancellationRequested |-> FALSE,
                  timeout |-> Undefined],
     token |-> "none", timeout |-> Undefined, timer |-> "none", aborted |-> FALSE,
     promise |-> [state |-> "none"], outcome |-> [tag |-> "None"],
     effects |-> NoCallEffects]

Success(response) == [tag |-> "Success", response |-> response]

Failure(error) == [tag |-> "Failure", error |-> error]

Init ==
    /\ call = [c \in Calls |-> IdleCall]
    /\ microtasks = <<>>
    /\ requestExceptionCount \in [Sinks -> 0..MaxCount]
    /\ isDebugging \in BOOLEAN

\* ----------------------------------------------------- Retriever methods

trackRequestException(counts, sink) == [counts EXCEPT ![sink] = @ + 1]

resetRequestExceptionCount(counts, sink) == [counts EXCEPT ![sink] = 0]

RECURSIVE TrackAll(_, _)
TrackAll(counts, sinks) ==
    IF sinks = <<>> THEN counts
    ELSE TrackAll(trackRequestException(counts, Head(sinks)), Tail(sinks))

\* ------------------------------------------------------------------ fetch

\* A mutation of ThrowsIfCancelled: the token is not looked at.
ThrowsIfCancelledNever(isCancellationRequested) == FALSE

\* line 57: the check made before anything else.
ThrowsIfCancelled(isCancellationRequested) == isCancellationRequested

\* A mutation of TimeoutInEffect: no default.
TimeoutInEffectNoDefault(hasCancellation, optTimeout) == optTimeout

\* A mutation of TimeoutInEffect: the default also applies with a token.
TimeoutInEffectDefaultAlways(hasCancellation, optTimeout) ==
    Coalesce(optTimeout, Some(60 * 1000))

\* lines 61-67: the timeout in effect.
TimeoutInEffect(hasCancellation, optTimeout) ==
    IF hasCancellation THEN optTimeout ELSE Coalesce(optTimeout, Some(60 * 1000))

\* line 69
ArmTimer(timeout) == IF ~IsNullish(timeout) THEN "armed" ELSE "none"

\* clearTimeout(timer): a pending timer is cancelled, anything else is left.
clearTimeout(timer) == IF timer = "armed" THEN "cleared" ELSE timer

\* A mutation of OnSettled: the timer is left alone.
OnSettledLeavesTimer(timer) == timer

\* line 81: the callback given to promise.finally.
OnSettled(timer) == clearTimeout(timer)

\* A mutation of OnFulfilled: the count is not reset.
OnFulfilledNoReset(counts, provider) == counts

\* line 83
OnFulfilled(counts, provider) == resetRequestExceptionCount(counts, provider.id)

\* The reactions of the transport's promise, in the order fetch attaches them:
\* promise.finally(...) first, the continuation of `await promise` second.
Reactions(c) == <<[run |-> "finally", call |-> c], [run |-> "await", call |-> c]>>

\* fetch is invoked: everything up to `await promise`.
fetch(c, provider, cancellation, optTimeout) ==
    /\ call[c].pc = "idle"
    /\ microtasks = <<>>
    /\ LET opts == [cancellation |-> cancellation # "none",
                    isCancellationRequested |-> cancellation = "fired",
                    timeout |-> optTimeout]
           invoked == [IdleCall EXCEPT !.provider = provider, !.options = opts,
                                       !.token = cancellation]
       IN  IF ThrowsIfCancelled(opts.isCancellationRequested)
           THEN call' = [call EXCEPT ![c] =
                    [invoked EXCEPT !.pc = "done",
                                    !.outcome = Failure(CancellationError(Undefined))]]
           ELSE LET timeout == TimeoutInEffect(opts.cancellation, optTimeout)
                IN  call' = [call EXCEPT ![c] =
                        [invoked EXCEPT !.pc = "awaiting",
                                        !.timeout = timeout,
                                        !.timer = ArmTimer(timeout),
                                        !.promise = [state |-> "pending"],
                                        !.effects.transportCalls = 1]]
    /\ UNCHANGED <<microtasks, requestExceptionCount, isDebugging>>

\* A mutation of Abort: raising the signal also fails a call that has settled.
AbortOverwritesOutcome(this) ==
    [this EXCEPT !.aborted = TRUE,
                 !.effects.abortedInFlight =
                     @ \/ (this.pc = "awaiting" /\ this.promise.state = "pending"),
                 !.outcome = IF this.pc = "done"
                             THEN Failure(CancellationError(Undefined)) ELSE @]

\* aborter.abort()
Abort(this) ==
    [this EXCEPT !.aborted = TRUE,
                 !.effects.abortedInFlight =
                     @ \/ (this.pc = "awaiting" /\ this.promise.state = "pending")]

\* The caller's token is cancelled; the listener of line 64 stays registered
\* for the life of the token.
TokenFires(c) ==
    /\ call[c].pc \in {"awaiting", "done"}
    /\ call[c].token = "live"
    /\ microtasks = <<>>
    /\ call' = [call EXCEPT ![c] = [Abort(call[c]) EXCEPT !.token = "fired"]]
    /\ UNCHANGED <<microtasks, requestExceptionCount, isDebugging>>

\* The callback of setTimeout runs.
TimerFires(c) ==
    /\ call[c].timer = "armed"
    /\ microtasks = <<>>
    /\ call' = [call EXCEPT ![c] =
            [Abort(call[c]) EXCEPT !.timer = "fired",
                                   !.effects.lateTimer = call[c].pc = "done"]]
    /\ UNCHANGED <<microtasks, requestExceptionCount, isDebugging>>

\* ------------------------------------------------------------ transport

InFlight(c) == call[c].pc = "awaiting" /\ call[c].promise.state = "pending"

TransportResolves(c, response) ==
    /\ InFlight(c) /\ ~call[c].aborted
    /\ microtasks = <<>>
    /\ call' = [call EXCEPT ![c].promise = [state |-> "fulfilled", value |-> response]]
    /\ microtasks' = Reactions(c)
    /\ UNCHANGED <<requestExceptionCount, isDebugging>>

TransportRejects(c, ex) ==
    /\ InFlight(c) /\ ~call[c].aborted
    /\ microtasks = <<>>
    /\ call' = [call EXCEPT ![c].promise = [state |-> "rejected", reason |-> ex]]
    /\ microtasks' = Reactions(c)
    /\ UNCHANGED <<requestExceptionCount, isDebugging>>

\* The transport observes the raised signal and ends the request.
TransportAborts(c) ==
    /\ InFlight(c) /\ call[c].aborted
    /\ microtasks = <<>>
    /\ call' = [call EXCEPT ![c].promise = [state |-> "rejected", reason |-> AbortError]]
    /\ microtasks' = Reactions(c)
    /\ UNCHANGED <<requestExceptionCount, isDebugging>>

\* Network data reaches the transport after the signal was raised: it is dropped.
LateData(c) ==
    /\ InFlight(c) /\ call[c].aborted
    /\ ~call[c].effects.lateData
    /\ microtasks = <<>>
    /\ call' = [call EXCEPT ![c].effects.lateData = TRUE]
    /\ UNCHANGED <<microtasks, requestExceptionCount, isDebugging>>

\* ----------------------------------------------------- promise reactions

\* line 81: promise.finally(() => clearTimeout(timer))
FinallyClearTimeout(c) ==
    /\ microtasks # <<>>
    /\ Head(microtasks) = [run |-> "finally", call |-> c]
    /\ call' = [call EXCEPT ![c].timer = OnSettled(@)]
    /\ microtasks' = Tail(microtasks)
    /\ UNCHANGED <<requestExceptionCount, isDebugging>>

\* lines 82-84: `await promise` yields the response.
FetchReturns(c) ==
    /\ microtasks # <<>>
    /\ Head(microtasks) = [run |-> "await", call |-> c]
    /\ call[c].promise.state = "fulfilled"
    /\ requestExceptionCount' = OnFulfilled(requestExceptionCount, call[c].provider)
    /\ call' = [call EXCEPT ![c] =
            [@ EXCEPT !.pc = "done",
                      !.outcome = Success(call[c].promise.value),
                      !.effects.resets = Append(@, call[c].provider.id)]]
    /\ microtasks' = Tail(microtasks)
    /\ UNCHANGED isDebugging

\* A mutation of Rethrow: the exception is wrapped before it is thrown.
RethrowWrapped(ex) == ProviderRequestClientError(ex)

\* line 87: what the catch block throws when handleRequestError returned.
Rethrow(ex) == ex

\* A mutation of FetchCatches: a 503 is tried again.
FetchCatchesRetrying(c) ==
    /\ microtasks # <<>>
    /\ Head(microtasks) = [run |-> "await", call |-> c]
    /\ call[c].promise.state = "rejected"
    /\ LET ex == call[c].promise.reason
           h  == handleRequestError(call[c].provider, ex, isDebugging)
       IN  IF ex.status = Some(503)
           THEN /\ requestExceptionCount' = requestExceptionCount
                /\ call' = [call EXCEPT ![c] =
                       [@ EXCEPT !.promise = [state |-> "pending"],
                                 !.effects.transportCalls = @ + 1]]
           ELSE /\ requestExceptionCount' = TrackAll(requestExceptionCount, h.tracked)
                /\ call' = [call EXCEPT ![c] =
                       [@ EXCEPT !.pc = "done",
                                 !.outcome = Failure(IF IsNullish(h.raised) THEN Rethrow(ex)
                                                     ELSE h.raised[1]),
                                 !.effects.tracked = @ \o h.tracked,
                                 !.effects.warnings = @ \o h.warnings,
                                 !.effects.logged = @ + h.logged,
                                 !.effects.shown = @ \o h.shown]]
    /\ microtasks' = Tail(microtasks)
    /\ UNCHANGED isDebugging

\* lines 85-88: `await promise` throws.
FetchCatches(c) ==
    /\ microtasks # <<>>
    /\ Head(microtasks) = [run |-> "await", call |-> c]
    /\ call[c].promise.state = "rejected"
    /\ LET ex == call[c].promise.reason
           h  == handleRequestError(call[c].provider, ex, isDebugging)
       IN  /\ requestExceptionCount' = TrackAll(requestExceptionCount, h.tracked)
           /\ call' = [call EXCEPT ![c] =
                  [@ EXCEPT !.pc = "done",
                            !.outcome = Failure(IF IsNullish(h.raised) THEN Rethrow(ex)
                                                ELSE h.raised[1]),
                            !.effects.tracked = @ \o h.tracked,
                            !.effects.warnings = @ \o h.warnings,
                            !.effects.logged = @ + h.logged,
                            !.effects.shown = @ \o h.shown]]
    /\ microtasks' = Tail(microtasks)
    /\ UNCHANGED isDebugging

\* ---------------------------------------------------------- specifications

Invoke(c, timeouts) ==
    \E provider \in Retrievers, cancellation \in {"none", "live", "fired"},
       optTimeout \in {Undefined} \cup {Some(t) : t \in timeouts} :
        fetch(c, provider, cancellation, optTimeout)

Resolve(c, responses) == \E response \in responses : TransportResolves(c, response)

Reject(c, failures) == \E ex \in failures : TransportRejects(c, ex)

\* Two invocations that run concurrently, on the same provider or on two.
Next ==
    \E c \in Calls :
        \/ Invoke(c, RaceTimeouts)
        \/ TokenFires(c)
        \/ TimerFires(c)
        \/ Resolve(c, RaceResponses)
        \/ Reject(c, RaceExceptions)
        \/ TransportAborts(c)
        \/ LateData(c)
        \/ FinallyClearTimeout(c)
        \/ FetchReturns(c)
        \/ FetchCatches(c)

Spec == Init /\ [][Next]_vars

\* One invocation, with every failure the transport can raise.
First == "c1"

ClassifyNext ==
    \/ Invoke(First, ExplicitTimeouts)
    \/ TokenFires(First)
    \/ TimerFires(First)
    \/ Resolve(First, Responses)
    \/ Reject(First, Exceptions)
    \/ TransportAborts(First)
    \/ LateData(First)
    \/ FinallyClearTimeout(First)
    \/ FetchReturns(First)
    \/ FetchCatches(First)

ClassifySpec == Init /\ [][ClassifyNext]_vars

\* A transport that never completes on its own and honours the abort signal.
\* The event loop runs every timer callback that is due, every reaction that
\* is queued, and the transport acts on a raised signal.
HangingNext ==
    \E c \in Calls :
        \/ Invoke(c, RaceTimeouts)
        \/ TokenFires(c)
        \/ TimerFires(c)
        \/ TransportAborts(c)
        \/ LateData(c)
        \/ FinallyClearTimeout(c)
        \/ FetchCatches(c)

HangingSpec ==
    /\ Init
    /\ [][HangingNext]_vars
    /\ \A c \in Calls :
        /\ WF_vars(TimerFires(c))
        /\ WF_vars(TransportAborts(c))
        /\ WF_vars(FinallyClearTimeout(c))
        /\ WF_vars(FetchCatches(c))

\* ----------------------------------------------------------------- claims

Done(c) == call[c].pc = "done"

Rejected(c) == Done(c) /\ call[c].outcome.tag = "Failure"

RejectedWith(c, kind) == Rejected(c) /\ call[c].outcome.error.kind = kind

\* The call ended in the catch block with a failure the transport raised that
\* is neither a CancellationError nor AbortError-shaped, carrying this status.
FailedWithStatus(c, n) ==
    /\ Done(c)
    /\ call[c].promise.state = "rejected"
    /\ call[c].promise.reason.kind = "RequestError"
    /\ call[c].promise.reason.name # "AbortError"
    /\ call[c].promise.reason.status = Some(n)

\* C1: once the token or the timer has raised the abort signal while the
\* transport's promise was still pending, the call never produces a response:
\* when it settles it is rejected with a CancellationError, whatever network
\* data arrives after the signal.
C1_AbortBeforeResponseWins ==
    \A c \in Calls :
        call[c].effects.abortedInFlight =>
            /\ call[c].outcome.tag # "Success"
            /\ Done(c) => RejectedWith(c, "CancellationError")

\* C1 witness: a call aborted in flight, with data arriving afterwards, that
\* settled with a CancellationError wrapping the transport's AbortError.
C1_Witness ==
    \E c \in Calls :
        /\ call[c].effects.abortedInFlight
        /\ call[c].effects.lateData
        /\ Done(c)
        /\ call[c].outcome = Failure(CancellationError(Some(AbortError)))

\* C2: a call whose options.cancellation was already signaled when fetch was
\* invoked is rejected with a CancellationError at once, and the transport is
\* never called for it.
C2_PreCancelledNeverReachesTransport ==
    \A c \in Calls :
        call[c].pc # "idle" /\ call[c].options.isCancellationRequested =>
            /\ RejectedWith(c, "CancellationError")
            /\ call[c].effects.transportCalls = 0
            /\ call[c].promise.state = "none"

\* C2 witness: such a call exists and is settled.
C2_Witness ==
    \E c \in Calls :
        /\ call[c].options.isCancellationRequested
        /\ RejectedWith(c, "CancellationError")
        /\ call[c].effects.transportCalls = 0

\* C3 as stated: every rejection of fetch is a taxonomy error.
C3_OnlyTaxonomyErrors ==
    \A c \in Calls : Rejected(c) => call[c].outcome.error.kind \in TaxonomyKinds

\* The failures handleRequestError returns from instead of raising: not a
\* cancellation, and a status that is 500, 502, 503, absent or outside 400..499.
ReturnsNormally(ex) ==
    /\ ex.kind # "CancellationError"
    /\ ex.name # "AbortError"
    /\ \/ IsNullish(ex.status)
       \/ ex.status[1] < 400
       \/ ex.status[1] > 499

\* C3 amended: a rejection of fetch is the transport's own exception,
\* unchanged, exactly when the failure is one classification returns from;
\* every other rejection is a taxonomy error, and a taxonomy error made from a
\* transport failure is that failure itself (a CancellationError) or carries
\* it as its cause.
C3_TaxonomyOrOriginal ==
    \A c \in Calls :
        Rejected(c) =>
            LET error == call[c].outcome.error
            IN  IF call[c].promise.state = "rejected"
                THEN LET ex == call[c].promise.reason
                     IN  IF ReturnsNormally(ex) THEN error = ex
                         ELSE /\ error.kind \in TaxonomyKinds
                              /\ error = ex \/ error.original = Some(ex)
                ELSE error = CancellationError(Undefined)

\* C3 witness: a call rejected with the transport's own status-500 exception.
C3_Witness ==
    \E c \in Calls :
        /\ FailedWithStatus(c, 500)
        /\ call[c].outcome = Failure(call[c].promise.reason)
        /\ call[c].outcome.error.kind \notin TaxonomyKinds

\* A timeout is in effect: an explicit one, or the default when the caller
\* gave no cancellation handle.
HasTimeout(c) == ~IsNullish(call[c].options.timeout) \/ ~call[c].options.cancellation

\* C4: with a transport that never completes on its own, a call that is
\* awaiting with a timeout in effect is eventually rejected with a
\* CancellationError.
C4_TimeoutEventuallyCancels ==
    \A c \in Calls :
        (call[c].pc = "awaiting" /\ HasTimeout(c)) ~> RejectedWith(c, "CancellationError")

\* C4 witness: a call with neither a timeout nor a cancellation handle, ended
\* by the default timer.
C4_Witness ==
    \E c \in Calls :
        /\ ~call[c].options.cancellation
        /\ IsNullish(call[c].options.timeout)
        /\ call[c].timeout = Some(60000)
        /\ call[c].timer = "fired"
        /\ RejectedWith(c, "CancellationError")

\* C5: a settled call has no pending timer, and its timer callback never ran
\* after it settled.
C5_SettledCallHasNoTimer ==
    \A c \in Calls : Done(c) => call[c].timer # "armed" /\ ~call[c].effects.lateTimer

\* C5 witness: one call settled by a response and one by a failure, each with
\* its timer cleared before it could fire.
C5_Witness ==
    \E c, d \in Calls :
        /\ Done(c) /\ call[c].outcome.tag = "Success" /\ call[c].timer = "cleared"
        /\ Rejected(d) /\ call[d].timer = "cleared"

\* C6: the step in which a call returns leaves its provider's exception count
\* at 0 and returns the very response the transport resolved with.
C6_SuccessResetsCount ==
    [][\A c \in Calls :
          (call[c].pc = "awaiting" /\ call'[c].pc = "done"
             /\ call'[c].outcome.tag = "Success") =>
            /\ call[c].promise.state = "fulfilled"
            /\ call'[c].outcome.response = call[c].promise.value
            /\ requestExceptionCount'[call[c].provider.id] = 0]_vars

\* C6 witness: one call tracked an exception on a provider, another call on
\* the same provider succeeded, and the count is 0: the reset came last and
\* found a count above 0.
C6_Witness ==
    \E c, d \in Calls :
        /\ Done(c) /\ call[c].outcome.tag = "Success"
        /\ Done(d) /\ call[d].effects.tracked = <<call[c].provider.id>>
        /\ requestExceptionCount[call[c].provider.id] = 0

\* C7 as stated: every trackRequestException and resetRequestExceptionCount a
\* call makes is made on the provider it was given.
C7_TracksOwnProviderOnly ==
    \A c \in Calls :
        /\ \A i \in 1..Len(call[c].effects.tracked) :
              call[c].effects.tracked[i] = call[c].provider.id
        /\ \A i \in 1..Len(call[c].effects.resets) :
              call[c].effects.resets[i] = call[c].provider.id

\* C8: a call that failed with status 500 tracked one exception and showed
\* one degraded-service warning if the exception carried a response payload,
\* and did neither if it carried none; either way it is rejected with the
\* transport's exception itself.
C8_Status500 ==
    \A c \in Calls :
        FailedWithStatus(c, 500) =>
            LET ex == call[c].promise.reason
            IN  /\ call[c].outcome = Failure(ex)
                /\ IF ~IsNullish(ex.response)
                   THEN /\ Len(call[c].effects.tracked) = 1
                        /\ call[c].effects.warnings = <<Failed500Warning(call[c].provider)>>
                   ELSE /\ call[c].effects.tracked = <<>>
                        /\ call[c].effects.warnings = <<>>

\* C8 witness: a status-500 failure without a payload, which tracked nothing.
C8_Witness ==
    \E c \in Calls :
        /\ FailedWithStatus(c, 500)
        /\ IsNullish(call[c].promise.reason.response)
        /\ call[c].effects.tracked = <<>>
        /\ call[c].effects.logged = 1

\* C9: a call that failed with status 503 logged the failure, tracked one
\* exception and showed one degraded-service warning, with or without a
\* response payload, and is rejected with the transport's exception itself.
C9_Status503 ==
    \A c \in Calls :
        FailedWithStatus(c, 503) =>
            /\ call[c].outcome = Failure(call[c].promise.reason)
            /\ call[c].effects.logged = 1
            /\ Len(call[c].effects.tracked) = 1
            /\ call[c].effects.warnings = <<Failed500Warning(call[c].provider)>>

\* C9 witness: a status-503 failure without a payload, tracked once.
C9_Witness ==
    \E c \in Calls :
        /\ FailedWithStatus(c, 503)
        /\ IsNullish(call[c].promise.reason.response)
        /\ Len(call[c].effects.tracked) = 1
        /\ Len(call[c].effects.warnings) = 1

\* The message has the word the 502 case looks for.
SaysTimeout(message) ==
    \E i \in 1..Len(message) :
        /\ i + 6 <= Len(message)
        /\ <<message[i], message[i + 1], message[i + 2], message[i + 3],
             message[i + 4], message[i + 5], message[i + 6]>>
              = <<"t", "i", "m", "e", "o", "u", "t">>

\* C10: a call that failed with status 502 called its own provider's
\* trackRequestException once and showed the timeout warning for that provider
\* if the message says "timeout", and did neither otherwise; either way it is
\* rejected with the transport's exception itself.
C10_Status502 ==
    \A c \in Calls :
        FailedWithStatus(c, 502) =>
            LET ex == call[c].promise.reason
            IN  /\ call[c].outcome = Failure(ex)
                /\ IF SaysTimeout(ex.message)
                   THEN /\ call[c].effects.tracked = <<call[c].provider.id>>
                        /\ call[c].effects.warnings = <<TimedOutWarning(call[c].provider)>>
                   ELSE /\ call[c].effects.tracked = <<>>
                        /\ call[c].effects.warnings = <<>>

\* C10 witness: a status-502 failure whose message says "timeout", tracked on
\* the provider and rejected with the original exception.
C10_Witness ==
    \E c \in Calls :
        /\ FailedWithStatus(c, 502)
        /\ call[c].promise.reason.message = MsgGatewayTimeout
        /\ call[c].effects.tracked = <<call[c].provider.id>>
        /\ call[c].outcome = Failure(call[c].promise.reason)

\* The message has the phrase the 403 case looks for.
SaysRateLimit(message) ==
    \E i \in 1..Len(message) :
        /\ i + 9 <= Len(message)
        /\ [k \in 1..10 |-> message[i + k - 1]]
              = <<"r", "a", "t", "e", " ", "l", "i", "m", "i", "t">>

\* ex.response?.headers?.['x-ratelimit-reset']
ResetHeader(ex) ==
    IF IsNullish(ex.response) THEN Undefined ELSE ex.response[1].headers.xRatelimitReset

\* The text is a decimal integer: digits and nothing else.
IsDecimalInteger(text) ==
    /\ text # <<>>
    /\ \A i \in 1..Len(text) :
          text[i] \in {"0", "1", "2", "3", "4", "5", "6", "7", "8", "9"}

\* The integer a decimal integer denotes.
DecimalIntegerValue(text) ==
    LET digit(ch) == CHOOSE d \in 0..9 : Digits[d + 1] = ch
        value[i \in 0..Len(text)] ==
            IF i = 0 THEN 0 ELSE 10 * value[i - 1] + digit(text[i])
    IN  value[Len(text)]

\* The text does not begin a number: it is empty, or starts with something
\* other than a digit, a sign or white space.
DoesNotParse(text) ==
    \/ text = <<>>
    \/ text[1] \notin {"0", "1", "2", "3", "4", "5", "6", "7", "8", "9",
                        "+", "-", " ", "\t", "\n"}

\* C11: a call that failed with status 403 and a message containing
\* "rate limit" is rejected with a ProviderRequestRateLimitError that carries
\* the exception as cause and the provider's token; its resetAt is the
\* header's integer when the x-ratelimit-reset header is a decimal integer
\* (1700000000 for "1700000000") and is absent, never NaN, when the header is
\* missing or does not parse.
C11_RateLimit ==
    \A c \in Calls :
        FailedWithStatus(c, 403) /\ SaysRateLimit(call[c].promise.reason.message) =>
            LET ex     == call[c].promise.reason
                header == ResetHeader(ex)
            IN  /\ RejectedWith(c, "ProviderRequestRateLimitError")
                /\ call[c].outcome.error.original = Some(ex)
                /\ call[c].outcome.error.token = call[c].provider.token
                /\ ~NumberIsNaN(call[c].outcome.error.resetAt)
                /\ IsNullish(header) => call[c].outcome.error.resetAt = Undefined
                /\ header = Some(HdrEpoch) =>
                      call[c].outcome.error.resetAt = Some(1700000000)
                /\ (~IsNullish(header) /\ IsDecimalInteger(header[1])) =>
                      call[c].outcome.error.resetAt = Some(DecimalIntegerValue(header[1]))
                /\ (~IsNullish(header) /\ DoesNotParse(header[1])) =>
                      call[c].outcome.error.resetAt = Undefined

\* C11 witness: a rate-limited call whose header is not a number and whose
\* resetAt is absent.
C11_Witness ==
    \E c \in Calls :
        /\ FailedWithStatus(c, 403)
        /\ ResetHeader(call[c].promise.reason) = Some(HdrNotANumber)
        /\ RejectedWith(c, "ProviderRequestRateLimitError")
        /\ call[c].outcome.error.resetAt = Undefined

\* C12: a call that failed with status 403 and a message without
\* "rate limit" is rejected with an AuthenticationError whose reason is
\* Forbidden and whose provider identity is the literal "gitkraken", which is
\* no provider's id.
C12_ForbiddenIsAggregator ==
    \A c \in Calls :
        FailedWithStatus(c, 403) /\ ~SaysRateLimit(call[c].promise.reason.message) =>
            /\ RejectedWith(c, "AuthenticationError")
            /\ call[c].outcome.error.reason = "Forbidden"
            /\ call[c].outcome.error.id = "gitkraken"
            /\ call[c].outcome.error.id # call[c].provider.id
            /\ call[c].outcome.error.original = Some(call[c].promise.reason)

\* C12 witness: such a call, made for GitLab.
C12_Witness ==
    \E c \in Calls :
        /\ FailedWithStatus(c, 403)
        /\ call[c].promise.reason.message = MsgPlain
        /\ call[c].provider = GitLab
        /\ RejectedWith(c, "AuthenticationError")
        /\ call[c].outcome.error.id = "gitkraken"

\* C13: a call that failed with status 401 is rejected with an
\* AuthenticationError whose reason is Unauthorized, that carries the id of the
\* provider given to that call and the transport's exception as cause.
C13_UnauthorizedIsProvider ==
    \A c \in Calls :
        FailedWithStatus(c, 401) =>
            /\ RejectedWith(c, "AuthenticationError")
            /\ call[c].outcome.error.reason = "Unauthorized"
            /\ call[c].outcome.error.id = call[c].provider.id
            /\ call[c].outcome.error.original = Some(call[c].promise.reason)

\* C13 witness: a 401 for GitLab, even with a message that says "rate limit".
C13_Witness ==
    \E c \in Calls :
        /\ FailedWithStatus(c, 401)
        /\ call[c].promise.reason.message = MsgRateLimit
        /\ call[c].provider = GitLab
        /\ RejectedWith(c, "AuthenticationError")
        /\ call[c].outcome.error.id = "gitlab"

\* C14: a call that failed with a status in 400..499 other than 401 and 403
\* is rejected with a ProviderRequestNotFoundError for 404, 410 and 422 and
\* with a ProviderRequestClientError for any other, each carrying the
\* transport's exception as cause.
C14_OtherClientStatuses ==
    \A c \in Calls :
        \A n \in (400..499) \ {401, 403} :
            FailedWithStatus(c, n) =>
                /\ RejectedWith(c, IF n \in {404, 410, 422}
                                   THEN "ProviderRequestNotFoundError"
                                   ELSE "ProviderRequestClientError")
                /\ call[c].outcome.error.original = Some(call[c].promise.reason)

\* C14 witness: a status-400 failure rejected with a ProviderRequestClientError.
C14_Witness ==
    \E c \in Calls :
        /\ FailedWithStatus(c, 400)
        /\ RejectedWith(c, "ProviderRequestClientError")

\* The call did nothing a health sink, the log or the user could observe.
NoSideEffects(c) ==
    /\ call[c].effects.logged = 0
    /\ call[c].effects.tracked = <<>>
    /\ call[c].effects.resets = <<>>
    /\ call[c].effects.warnings = <<>>
    /\ call[c].effects.shown = <<>>

\* C15: a call whose transport raised a CancellationError is rejected with
\* that very value, and one whose transport raised an AbortError-shaped error
\* is rejected with a CancellationError wrapping it; this holds whatever status
\* the exception carries, and nothing is logged, tracked or shown.
C15_CancellationShortCircuits ==
    \A c \in Calls :
        (Done(c) /\ call[c].promise.state = "rejected") =>
            LET ex == call[c].promise.reason
            IN  /\ ex.kind = "CancellationError" =>
                      call[c].outcome = Failure(ex) /\ NoSideEffects(c)
                /\ (ex.kind # "CancellationError" /\ ex.name = "AbortError") =>
                      /\ call[c].outcome = Failure(CancellationError(Some(ex)))
                      /\ NoSideEffects(c)

\* C15 witness: an AbortError-shaped exception that carries status 500.
C15_Witness ==
    \E c \in Calls :
        /\ Done(c)
        /\ call[c].promise.state = "rejected"
        /\ call[c].promise.reason.name = "AbortError"
        /\ call[c].promise.reason.status = Some(500)
        /\ RejectedWith(c, "CancellationError")

\* The call got past the check of options.cancellation.
Started(c) == call[c].effects.transportCalls > 0

\* C16: the timeout of a call is the explicit options.timeout when one is
\* given; without one it is 60000 when no cancellation handle is given and
\* none when a handle is given.  With none no timer exists, and the signal is
\* raised only once the token has fired; with one a timer was armed.
C16_TimeoutPolicy ==
    \A c \in Calls :
        Started(c) =>
            LET opts == call[c].options
            IN  /\ ~IsNullish(opts.timeout) => call[c].timeout = opts.timeout
                /\ (IsNullish(opts.timeout) /\ ~opts.cancellation) =>
                      call[c].timeout = Some(60000)
                /\ (IsNullish(opts.timeout) /\ opts.cancellation) =>
                      /\ call[c].timeout = Undefined
                      /\ call[c].timer = "none"
                      /\ call[c].aborted => call[c].token = "fired"
                /\ ~IsNullish(call[c].timeout) =>
                      call[c].timer \in {"armed", "fired", "cleared"}

\* C16 witness: a call with a handle and no timeout, aborted by its token, and
\* with no timer.
C16_Witness ==
    \E c \in Calls :
        /\ Started(c)
        /\ call[c].options.cancellation
        /\ IsNullish(call[c].options.timeout)
        /\ call[c].timer = "none"
        /\ call[c].aborted
        /\ RejectedWith(c, "CancellationError")

C18_NoRetry ==
    \A c \in Calls :
        /\ call[c].effects.transportCalls <= 1
        /\ Done(c) => call[c].promise.state # "pending"
        /\ (call[c].pc = "awaiting" /\ call[c].promise.state = "rejected") =>
              microtasks # <<>>

\* C18 witness: a call that failed with status 503, settled after one request.
C18_Witness ==
    \E c \in Calls :
        /\ FailedWithStatus(c, 503)
        /\ call[c].effects.transportCalls = 1
        /\ Rejected(c)

\* The failure is one for which the code after the switch is reached: not a
\* cancellation, and status 502 or a status that is absent or outside
\* 400..499 and neither 500 nor 503.
ReachesAfterSwitch(ex) ==
    /\ ex.kind # "CancellationError"
    /\ ex.name # "AbortError"
    /\ \/ IsNullish(ex.status)
       \/ ex.status = Some(502)
       \/ /\ ex.status[1] < 400 \/ ex.status[1] > 499
          /\ ex.status[1] \notin {500, 503}

\* C19: a settled call has shown the debug failure message exactly when
\* debug mode is active and its transport failure reaches the code after the
\* switch; then it showed it once, built from the payload's first error detail
\* if there is one and from the exception's message otherwise.
C19_DebugMessage ==
    \A c \in Calls :
        Done(c) =>
            LET surfaced == call[c].effects.shown # <<>>
            IN  /\ surfaced <=> /\ isDebugging
                                /\ call[c].promise.state = "rejected"
                                /\ ReachesAfterSwitch(call[c].promise.reason)
                /\ surfaced =>
                      LET ex == call[c].promise.reason
                      IN  /\ Len(call[c].effects.shown) = 1
                          /\ call[c].effects.shown[1].name = call[c].provider.name
                          /\ call[c].effects.shown[1].text =
                                IF ~IsNullish(ex.response) /\ ~IsNullish(ex.response[1].errors)
                                THEN ex.response[1].errors[1].message
                                ELSE ex.message

\* C19 witness: debug mode off, a status-501 failure, nothing shown.
C19_Witness ==
    \E c \in Calls :
        /\ ~isDebugging
        /\ FailedWithStatus(c, 501)
        /\ call[c].effects.shown = <<>>
        /\ call[c].outcome = Failure(call[c].promise.reason)

\* C20: in the step that settles a call, resetRequestExceptionCount was
\* called only if the call returned a response, trackRequestException at most
\* once and only if the transport failed with status 500, 502 or 503, never
\* both; and if the call is rejected with a taxonomy error, no exception count
\* changed in that step and the call tracked, reset and warned nothing.
C20_HealthSinkFrame ==
    [][\A c \in Calls :
          (call[c].pc # "done" /\ call'[c].pc = "done") =>
            LET after == call'[c]
                e     == after.effects
            IN  /\ e.resets # <<>> => after.outcome.tag = "Success"
                /\ Len(e.tracked) <= 1
                /\ e.tracked # <<>> =>
                      /\ after.outcome.tag = "Failure"
                      /\ after.promise.state = "rejected"
                      /\ \E n \in {500, 502, 503} : after.promise.reason.status = Some(n)
                /\ ~(e.resets # <<>> /\ e.tracked # <<>>)
                /\ (after.outcome.tag = "Failure"
                      /\ after.outcome.error.kind \in TaxonomyKinds) =>
                      /\ requestExceptionCount' = requestExceptionCount
                      /\ e.tracked = <<>>
                      /\ e.resets = <<>>
                      /\ e.warnings = <<>>]_vars

\* C20 witness: a call rejected with a ProviderRequestNotFoundError while its
\* provider's count, set before the call, is still above 0.
C20_Witness ==
    \E c \in Calls :
        /\ RejectedWith(c, "ProviderRequestNotFoundError")
        /\ call[c].effects.tracked = <<>>
        /\ call[c].effects.warnings = <<>>
        /\ requestExceptionCount[call[c].provider.id] > 0

=============================================================================
